---- MODULE Spec2Model ----
(***************************************************************************)
(* Model of the chat relay server (src/server/server.py).                  *)
(*                                                                         *)
(* One connection worker (handle_client) per accepted connection.  The     *)
(* shared state is the two dictionaries clients (username -> socket) and   *)
(* pairs (username -> partner username), guarded by clients_lock.  Every   *)
(* `with clients_lock:` block of the source is one atomic action here; the *)
(* code between two blocks touches only the worker's locals and sockets    *)
(* and belongs to the action of a neighbouring block: a readline with the  *)
(* block that follows it, send_line calls with the block that precedes     *)
(* them.  sendall has no timeout and returns only when the buffers         *)
(* towards the peer have taken the line: a worker stays in a send_line     *)
(* call that has to wait, and whatever the code does after that call is a  *)
(* later step (Send, SendReturns).                                         *)
(*                                                                         *)
(* Identities are the numbers 1..3, standing for three usernames in their  *)
(* lexicographic order; NoName (0) is None / the empty string.  A socket   *)
(* is named by the number of its connection; NoSock (0) is None.           *)
(***************************************************************************)
EXTENDS Naturals, Integers, Sequences, FiniteSets, TLC

NumConns == 3   \* connections accepted by main()
MaxLines == 6   \* lines read by all workers together, the name lines included
MaxWaiting == 1 \* workers that are inside a waiting sendall at the same time
MaxWaitLines == 4 \* lines read by all workers together while a sendall waits

Names  == {1, 2, 3}
NoName == 0
NoSock == 0
Conns  == 1..NumConns

VARIABLES
  clients,      \* clients: username -> socket (NoSock = key absent)
  pairs,        \* pairs: username -> partner username (NoName = key absent)
  open,         \* open[c]: connection c accepted and not yet closed
  eof,          \* eof[c]: the peer of c has closed its end and the worker
                \* has yet to read the end of the stream
  pc,           \* position of each worker in handle_client
  username,     \* handle_client local `username` (NoName once it has returned)
  target,       \* handle_client local `target`
  target_sock,  \* handle_client local `target_sock`
  old_partner,  \* handle_client local `old_partner`
  partner,      \* handle_client local `partner` (/leave and plain lines)
  sock,         \* cleanup_user local `sock`: the socket it popped and has yet
                \* to close (NoSock outside cleanup_user, and for None)
  pointed_back, \* pairs.get(partner) == username, as it was when the worker
                \* last read its partner's entry under the lock in the
                \* command it is in (lines 137, 163; line 181 for a plain line)
  input,        \* the line f.readline() returned in the last step, if it read one
  sent,         \* the send_line calls of the last step, in order
  nlines,       \* lines read so far by all workers
  waiting,      \* waiting[w]: the socket on which a sendall of worker w waits
                \* (NoSock: w is not inside a sendall)
  pending       \* pending[w]: the send_line calls worker w makes, in order,
                \* once the sendall it waits in has returned, before it
                \* goes on from pc[w]

vars == <<clients, pairs, open, eof, pc, username, target, target_sock,
          old_partner, partner, sock, pointed_back, input, sent, nlines,
          waiting, pending>>

locals == <<target, target_sock, old_partner, partner, pointed_back>>

\* Positions in which the dispatcher is in its Registered state
\* (after line 86, before the loop is left).
InLoop  == {"loop", "chat_old", "chat_unpair", "chat_oldsock", "chat_tp",
            "chat_set", "leave_unpair", "leave_notify", "msg_sock", "msg_pop"}

\* "idle": not accepted yet;
\* "prompt": accepted and prompted, waiting in the readline of line 76;
\* "ret_taken": the return of line 85, before the finally block;
\* "quit": the break of line 174, before the finally block;
\* "cleanup_close": in cleanup_user after its guarded section and its
\* notice (line 44), before safe_close(sock) (line 46);
\* "done": handle_client has returned.
PcValues == {"idle", "prompt", "ret_taken", "quit", "cleanup_close", "done"}
              \cup InLoop

\* One send_line(sock, text) call: the socket, the kind of line, the
\* identity the line names (NoName when it names none) and, for the answer
\* to /users, the names it lists in their order.
Line(to, kind, about) ==
  [to |-> to, kind |-> kind, about |-> about, users |-> <<>>]

\* The answer to /users: "[SERVER] Online: " + ", ".join(users), or
\* "No other users online." for an empty list.
UsersLine(to, users) ==
  [to |-> to, kind |-> IF users = <<>> THEN "noothers" ELSE "online",
   about |-> NoName, users |-> users]

\* A line read from connection c: its kind ("name" at the prompt; in the loop
\* "blank", "users", "chat", "leave", "quit", "unknown" for any other
\* "/"-command, "msg" for a plain line; "eof", "error" for a failed read)
\* and its argument (the name typed, the /chat target; NoName when blank).
In(c, kind, arg) == [conn |-> c, line |-> kind, arg |-> arg]
NoInput == In(NoSock, "", NoName)

\* sorted(...) of a set of identities, as list_users returns it.
RECURSIVE SortedSeq(_)
SortedSeq(S) ==
  IF S = {} THEN <<>>
  ELSE LET m == CHOOSE x \in S : \A y \in S : x <= y
       IN  <<m>> \o SortedSeq(S \ {m})

\* A variant of list_users that does not leave out except_name.
list_users_all(except_name) ==
  SortedSeq({u \in Names : clients[u] # NoSock})

\* list_users(except_name)
list_users(except_name) ==
  SortedSeq({u \in Names : clients[u] # NoSock /\ u # except_name})

TypeOK ==
  /\ clients \in [Names -> Conns \cup {NoSock}]
  /\ pairs \in [Names -> Names \cup {NoName}]
  /\ open \in [Conns -> BOOLEAN]
  /\ eof \in [Conns -> BOOLEAN]
  /\ pc \in [Conns -> PcValues]
  /\ username \in [Conns -> Names \cup {NoName}]
  /\ target \in [Conns -> Names \cup {NoName}]
  /\ target_sock \in [Conns -> Conns \cup {NoSock}]
  /\ old_partner \in [Conns -> Names \cup {NoName}]
  /\ partner \in [Conns -> Names \cup {NoName}]
  /\ sock \in [Conns -> Conns \cup {NoSock}]
  /\ pointed_back \in [Conns -> BOOLEAN]
  /\ input.conn \in Conns \cup {NoSock}
  /\ input.arg \in Names \cup {NoName}
  /\ \A i \in DOMAIN sent :
       /\ sent[i].to \in Conns
       /\ sent[i].about \in Names \cup {NoName}
       /\ sent[i].users \in Seq(Names)
  /\ nlines \in 0..MaxLines
  /\ waiting \in [Conns -> Conns \cup {NoSock}]
  /\ \A w \in Conns :
       /\ \A i \in DOMAIN pending[w] : pending[w][i].to \in Conns
       /\ waiting[w] = NoSock => pending[w] = <<>>

Init ==
  /\ clients = [u \in Names |-> NoSock]
  /\ pairs = [u \in Names |-> NoName]
  /\ open = [c \in Conns |-> FALSE]
  /\ eof = [c \in Conns |-> FALSE]
  /\ pc = [c \in Conns |-> "idle"]
  /\ username = [c \in Conns |-> NoName]
  /\ target = [c \in Conns |-> NoName]
  /\ target_sock = [c \in Conns |-> NoSock]
  /\ old_partner = [c \in Conns |-> NoName]
  /\ partner = [c \in Conns |-> NoName]
  /\ sock = [c \in Conns |-> NoSock]
  /\ pointed_back = [c \in Conns |-> FALSE]
  /\ input = NoInput
  /\ sent = <<>>
  /\ nlines = 0
  /\ waiting = [c \in Conns |-> NoSock]
  /\ pending = [c \in Conns |-> <<>>]

----------------------------------------------------------------------------
(* send_line: sock.sendall(...) with any exception swallowed.  The socket  *)
(* is a blocking one without a timeout, so the call waits for as long as   *)
(* the buffers towards the peer are full and the peer does not read; a     *)
(* shutdown of the socket ends the wait (sendall raises).  Whether a call  *)
(* waits depends on how much the peer has left unread and on the length of *)
(* the line, and the clients choose both (names and messages of any        *)
(* length).                                                                *)

\* The lines that are the first bytes written to a socket: the prompt, and
\* the rejection that follows it.  They are fixed texts of less than a
\* hundred bytes together, which the empty send buffer of a connection
\* that was just accepted takes: sendall returns without waiting.
FirstLines == {"welcome", "empty", "taken"}

\* The send_line call for line l, in the state a step leaves, may have to
\* wait: its socket is open, and the line is not one of the first lines.
CanWait(l) == open'[l.to] /\ l.kind \notin FirstLines

\* The workers other than w that are inside a sendall that waits.
OthersWaiting(w) == {v \in Conns \ {w} : waiting[v] # NoSock}

\* Another line can be read: the lines read stay within the bounds.
MoreLines ==
  /\ nlines < MaxLines
  /\ (\E v \in Conns : waiting[v] # NoSock) => nlines < MaxWaitLines

\* The send_line calls q, made one after the other by worker w: all of
\* them return (k = 0), or the k-th is the first that waits; the calls
\* after it are made once it has returned.
SendLines(w, q) ==
  \E k \in 0..Len(q) :
    /\ k > 0 => /\ CanWait(q[k])
                 /\ Cardinality(OthersWaiting(w)) < MaxWaiting
                 /\ nlines' <= MaxWaitLines
    /\ sent' = IF k = 0 THEN q ELSE SubSeq(q, 1, k)
    /\ waiting' = [waiting EXCEPT ![w] = IF k = 0 THEN NoSock ELSE q[k].to]
    /\ pending' = [pending EXCEPT
                     ![w] = IF k = 0 THEN <<>> ELSE SubSeq(q, k + 1, Len(q))]

\* The send_line calls q that end a step of worker w.  The worker takes the
\* step only when it is not inside a sendall.
Send(w, q) ==
  /\ waiting[w] = NoSock
  /\ SendLines(w, q)

\* The sendall worker w waits in returns (the peer has read, or the socket
\* was shut down and sendall raised), and w makes the send_line calls that
\* were still to come.
SendReturns(w) ==
  /\ waiting[w] # NoSock
  /\ input' = NoInput
  /\ UNCHANGED <<clients, pairs, open, eof, pc, username, locals, sock, nlines>>
  /\ SendLines(w, pending[w])

----------------------------------------------------------------------------
(* Connection set-up: main() and the entry protocol of handle_client.      *)
(* Connections are numbered in the order in which main() accepts them.     *)

\* Another worker's cleanup_user holds socket c in its local `sock`: it has
\* popped it from the Registry (line 33) and has yet to close it (line 46).
Held(c) == \E v \in Conns \ {c} : sock[v] = c

\* conn, addr = s.accept() returns connection w and its worker starts: the
\* prompt of line 75, then the worker waits in the readline of line 76.
\* main's local `conn` now refers to w alone: a socket that a returned
\* worker left open and that only `conn` referred to is finalised, which
\* closes it.
Accept(w) ==
  /\ input' = NoInput
  /\ pc[w] = "idle"
  /\ \A v \in Conns : v < w => pc[v] # "idle"
  /\ open' = [c \in Conns |-> IF c = w THEN TRUE
                               ELSE IF pc[c] = "done" /\ ~Held(c) THEN FALSE
                               ELSE open[c]]
  /\ pc' = [pc EXCEPT ![w] = "prompt"]
  /\ UNCHANGED <<clients, pairs, username, locals, eof, sock, nlines>>
  /\ Send(w, <<Line(w, "welcome", NoName)>>)

\* Worker w is in the readline of line 76 and an answer arrives.
CanConnect(w) ==
  /\ pc[w] = "prompt"
  /\ MoreLines

\* username = f.readline().strip() is empty (an empty line or end of
\* stream), or readline raises: "Empty username" (not after a raise), and
\* the finally block: username is falsy, safe_close(conn).
RegisterEmpty(w, raised) ==
  /\ input' = In(w, IF raised THEN "error" ELSE "name", NoName)
  /\ CanConnect(w)
  /\ open' = [open EXCEPT ![w] = FALSE]
  /\ pc' = [pc EXCEPT ![w] = "done"]
  /\ nlines' = nlines + 1
  /\ UNCHANGED <<clients, pairs, username, locals, eof, sock>>
  /\ Send(w, IF raised THEN <<>> ELSE <<Line(w, "empty", NoName)>>)

\* The send_line calls of lines 88-94: the greeting and the six help lines.
Greeting(w, name) ==
  <<Line(w, "hello", name), Line(w, "help_commands", NoName),
    Line(w, "help_users", NoName), Line(w, "help_chat", NoName),
    Line(w, "help_leave", NoName), Line(w, "help_quit", NoName),
    Line(w, "help_tip", NoName)>>

\* username = name; with clients_lock: the name is free,
\* clients[username] = conn; the greeting.
RegisterOk(w, name) ==
  /\ input' = In(w, "name", name)
  /\ CanConnect(w)
  /\ clients[name] = NoSock
  /\ username' = [username EXCEPT ![w] = name]
  /\ clients' = [clients EXCEPT ![name] = w]
  /\ pc' = [pc EXCEPT ![w] = "loop"]
  /\ nlines' = nlines + 1
  /\ UNCHANGED <<pairs, open, locals, eof, sock>>
  /\ Send(w, Greeting(w, name))

\* username = name; with clients_lock: username in clients,
\* "Username already taken", return.
RegisterTaken(w, name) ==
  /\ input' = In(w, "name", name)
  /\ CanConnect(w)
  /\ clients[name] # NoSock
  /\ username' = [username EXCEPT ![w] = name]
  /\ pc' = [pc EXCEPT ![w] = "ret_taken"]
  /\ nlines' = nlines + 1
  /\ UNCHANGED <<clients, pairs, open, locals, eof, sock>>
  /\ Send(w, <<Line(w, "taken", NoName)>>)

----------------------------------------------------------------------------
(* The main loop.  Each Read..., Cmd... and Msg... action that is enabled   *)
(* by CanRead is f.readline() returning a line of that shape together with *)
(* the code up to and including the first guarded section the line leads   *)
(* to.                                                                     *)

\* Worker w is in the readline of line 97 and a line arrives.
CanRead(w) == pc[w] = "loop" /\ MoreLines

\* A blank line: continue.
ReadBlank(w) ==
  /\ input' = In(w, "blank", NoName)
  /\ CanRead(w)
  /\ nlines' = nlines + 1
  /\ UNCHANGED <<clients, pairs, open, pc, username, locals, eof, sock>>
  /\ Send(w, <<>>)

\* /users: list_users(username) under the lock, one answer to the sender.
CmdUsers(w) ==
  /\ input' = In(w, "users", NoName)
  /\ CanRead(w)
  /\ nlines' = nlines + 1
  /\ UNCHANGED <<clients, pairs, open, pc, username, locals, eof, sock>>
  /\ Send(w, <<UsersLine(w, list_users(username[w]))>>)

\* /chat with a missing or blank argument: usage, continue.
CmdChatUsage(w) ==
  /\ input' = In(w, "chat", NoName)
  /\ CanRead(w)
  /\ nlines' = nlines + 1
  /\ UNCHANGED <<clients, pairs, open, pc, username, locals, eof, sock>>
  /\ Send(w, <<Line(w, "usage", NoName)>>)

\* /chat <own name>: "You can't chat with yourself", continue.
CmdChatSelf(w) ==
  /\ input' = In(w, "chat", username[w])
  /\ CanRead(w)
  /\ nlines' = nlines + 1
  /\ UNCHANGED <<clients, pairs, open, pc, username, locals, eof, sock>>
  /\ Send(w, <<Line(w, "self", NoName)>>)

\* A variant of CmdChatNotFound that closes the sender's chat before it
\* looks the target up.
CmdChatNotFoundUnpairsFirst(w, t) ==
  /\ input' = In(w, "chat", t)
  /\ CanRead(w)
  /\ t # username[w]
  /\ clients[t] = NoSock
  /\ nlines' = nlines + 1
  /\ pairs' = [pairs EXCEPT ![username[w]] = NoName]
  /\ UNCHANGED <<clients, open, pc, username, locals, eof, sock>>
  /\ Send(w, <<Line(w, "notfound", t)>>)

\* /chat t, get_socket(t) returns None: "User not found", continue.
CmdChatNotFound(w, t) ==
  /\ input' = In(w, "chat", t)
  /\ CanRead(w)
  /\ t # username[w]
  /\ clients[t] = NoSock
  /\ nlines' = nlines + 1
  /\ UNCHANGED <<clients, pairs, open, pc, username, locals, eof, sock>>
  /\ Send(w, <<Line(w, "notfound", t)>>)

\* A variant of CmdChatFound without the comparison of the target with the
\* sender's own name.
CmdChatFoundAnyTarget(w, t) ==
  /\ input' = In(w, "chat", t)
  /\ CanRead(w)
  /\ clients[t] # NoSock
  /\ nlines' = nlines + 1
  /\ target' = [target EXCEPT ![w] = t]
  /\ target_sock' = [target_sock EXCEPT ![w] = clients[t]]
  /\ pc' = [pc EXCEPT ![w] = "chat_old"]
  /\ UNCHANGED <<clients, pairs, open, username, eof, sock, old_partner, partner,
                 pointed_back>>
  /\ Send(w, <<>>)

\* /chat t, target_sock = get_socket(t) is a socket.
CmdChatFound(w, t) ==
  /\ input' = In(w, "chat", t)
  /\ CanRead(w)
  /\ t # username[w]
  /\ clients[t] # NoSock
  /\ nlines' = nlines + 1
  /\ target' = [target EXCEPT ![w] = t]
  /\ target_sock' = [target_sock EXCEPT ![w] = clients[t]]
  /\ pc' = [pc EXCEPT ![w] = "chat_old"]
  /\ UNCHANGED <<clients, pairs, open, username, eof, sock, old_partner, partner,
                 pointed_back>>
  /\ Send(w, <<>>)

\* old_partner = get_partner(username)
ChatGetOld(w) ==
  /\ input' = NoInput
  /\ pc[w] = "chat_old"
  /\ old_partner' = [old_partner EXCEPT ![w] = pairs[username[w]]]
  /\ pc' = [pc EXCEPT ![w] = IF pairs[username[w]] = NoName THEN "chat_tp"
                                                           ELSE "chat_unpair"]
  /\ UNCHANGED <<clients, pairs, open, username, eof, sock, target, target_sock, partner,
                 pointed_back, nlines>>
  /\ Send(w, <<>>)

\* The guarded section that closes the previous chat (and, with the same
\* statements, the one of /leave): pop the partner's entry if it points
\* back, pop the own entry.
Unpair(ps, u, p) ==
  LET q == IF ps[p] = u THEN [ps EXCEPT ![p] = NoName] ELSE ps
  IN  [q EXCEPT ![u] = NoName]

\* with clients_lock: the guarded section of lines 136-139.
ChatUnpair(w) ==
  /\ input' = NoInput
  /\ pc[w] = "chat_unpair"
  /\ pairs' = Unpair(pairs, username[w], old_partner[w])
  /\ pointed_back' = [pointed_back EXCEPT
                        ![w] = (pairs[old_partner[w]] = username[w])]
  /\ pc' = [pc EXCEPT ![w] = "chat_oldsock"]
  /\ UNCHANGED <<clients, open, username, eof, sock, target, target_sock, old_partner,
                 partner, nlines>>
  /\ Send(w, <<>>)

\* old_partner_sock = get_socket(old_partner); the two notices.
ChatOldSock(w) ==
  /\ input' = NoInput
  /\ pc[w] = "chat_oldsock"
  /\ pc' = [pc EXCEPT ![w] = "chat_tp"]
  /\ pointed_back' = [pointed_back EXCEPT ![w] = FALSE]
  /\ UNCHANGED <<clients, pairs, open, username, eof, sock, target, target_sock,
                 old_partner, partner, nlines>>
  /\ Send(w, (IF clients[old_partner[w]] # NoSock
                   THEN <<Line(clients[old_partner[w]], "left", username[w])>>
                   ELSE <<>>)
                \o <<Line(w, "leftprev", old_partner[w])>>)

\* target_partner = get_partner(target): refuse, or go on to set_pair.
ChatTargetPartner(w) ==
  /\ input' = NoInput
  /\ pc[w] = "chat_tp"
  /\ LET target_partner == pairs[target[w]] IN
       IF target_partner # NoName /\ target_partner # username[w]
         THEN /\ pc' = [pc EXCEPT ![w] = "loop"]
              /\ target' = [target EXCEPT ![w] = NoName]
              /\ target_sock' = [target_sock EXCEPT ![w] = NoSock]
              /\ old_partner' = [old_partner EXCEPT ![w] = NoName]
         ELSE /\ pc' = [pc EXCEPT ![w] = "chat_set"]
              /\ UNCHANGED <<target, target_sock, old_partner>>
  /\ UNCHANGED <<clients, pairs, open, username, eof, sock, partner, pointed_back, nlines>>
  /\ Send(w, LET target_partner == pairs[target[w]] IN
               IF target_partner # NoName /\ target_partner # username[w]
                 THEN <<Line(w, "busy", target_partner)>>
                 ELSE <<>>)

\* A variant of set_pair that writes the entry of a only.
set_pair_one_way(ps, a, b) == [ps EXCEPT ![a] = b]

\* set_pair(a, b)
set_pair(ps, a, b) == [[ps EXCEPT ![a] = b] EXCEPT ![b] = a]

\* set_pair(username, target) and the two "chat started" lines.
ChatSetPair(w) ==
  /\ input' = NoInput
  /\ pc[w] = "chat_set"
  /\ pairs' = set_pair(pairs, username[w], target[w])
  /\ pc' = [pc EXCEPT ![w] = "loop"]
  /\ target' = [target EXCEPT ![w] = NoName]
  /\ target_sock' = [target_sock EXCEPT ![w] = NoSock]
  /\ old_partner' = [old_partner EXCEPT ![w] = NoName]
  /\ UNCHANGED <<clients, open, username, eof, sock, partner, pointed_back, nlines>>
  /\ Send(w, <<Line(w, "started", target[w]),
                  Line(target_sock[w], "startedwith", username[w])>>)

\* /leave, get_partner(username) is None: "You're not in a chat", continue.
CmdLeaveNoChat(w) ==
  /\ input' = In(w, "leave", NoName)
  /\ CanRead(w)
  /\ pairs[username[w]] = NoName
  /\ nlines' = nlines + 1
  /\ UNCHANGED <<clients, pairs, open, pc, username, locals, eof, sock>>
  /\ Send(w, <<Line(w, "leave_nochat", NoName)>>)

\* /leave, partner = get_partner(username) is a name.
CmdLeave(w) ==
  /\ input' = In(w, "leave", NoName)
  /\ CanRead(w)
  /\ pairs[username[w]] # NoName
  /\ nlines' = nlines + 1
  /\ partner' = [partner EXCEPT ![w] = pairs[username[w]]]
  /\ pc' = [pc EXCEPT ![w] = "leave_unpair"]
  /\ UNCHANGED <<clients, pairs, open, username, eof, sock, target, target_sock,
                 old_partner, pointed_back>>
  /\ Send(w, <<>>)

\* The guarded section of /leave.
LeaveUnpair(w) ==
  /\ input' = NoInput
  /\ pc[w] = "leave_unpair"
  /\ pairs' = Unpair(pairs, username[w], partner[w])
  /\ pointed_back' = [pointed_back EXCEPT
                        ![w] = (pairs[partner[w]] = username[w])]
  /\ pc' = [pc EXCEPT ![w] = "leave_notify"]
  /\ UNCHANGED <<clients, open, username, eof, sock, target, target_sock, old_partner,
                 partner, nlines>>
  /\ Send(w, <<>>)

\* partner_sock = get_socket(partner); notice to the partner, confirmation.
LeaveNotify(w) ==
  /\ input' = NoInput
  /\ pc[w] = "leave_notify"
  /\ pc' = [pc EXCEPT ![w] = "loop"]
  /\ partner' = [partner EXCEPT ![w] = NoName]
  /\ pointed_back' = [pointed_back EXCEPT ![w] = FALSE]
  /\ UNCHANGED <<clients, pairs, open, username, eof, sock, target, target_sock,
                 old_partner, nlines>>
  /\ Send(w, (IF clients[partner[w]] # NoSock
                   THEN <<Line(clients[partner[w]], "left", username[w])>>
                   ELSE <<>>)
                \o <<Line(w, "youleft", partner[w])>>)

\* Any other line that starts with "/": "Unknown command".
CmdUnknown(w) ==
  /\ input' = In(w, "unknown", NoName)
  /\ CanRead(w)
  /\ nlines' = nlines + 1
  /\ UNCHANGED <<clients, pairs, open, pc, username, locals, eof, sock>>
  /\ Send(w, <<Line(w, "unknown", NoName)>>)

\* A plain line, get_partner(username) is None: "You're not in a chat".
MsgNoChat(w) ==
  /\ input' = In(w, "msg", NoName)
  /\ CanRead(w)
  /\ pairs[username[w]] = NoName
  /\ nlines' = nlines + 1
  /\ UNCHANGED <<clients, pairs, open, pc, username, locals, eof, sock>>
  /\ Send(w, <<Line(w, "notinchat", NoName)>>)

\* A plain line, partner = get_partner(username) is a name.
MsgGetPartner(w) ==
  /\ input' = In(w, "msg", NoName)
  /\ CanRead(w)
  /\ pairs[username[w]] # NoName
  /\ nlines' = nlines + 1
  /\ partner' = [partner EXCEPT ![w] = pairs[username[w]]]
  /\ pointed_back' = [pointed_back EXCEPT
                        ![w] = (pairs[pairs[username[w]]] = username[w])]
  /\ pc' = [pc EXCEPT ![w] = "msg_sock"]
  /\ UNCHANGED <<clients, pairs, open, username, eof, sock, target, target_sock,
                 old_partner>>
  /\ Send(w, <<>>)

\* partner_sock = get_socket(partner): forward the line, or go on to drop
\* the dangling entry.
MsgGetSocket(w) ==
  /\ input' = NoInput
  /\ pc[w] = "msg_sock"
  /\ IF clients[partner[w]] # NoSock
       THEN /\ pc' = [pc EXCEPT ![w] = "loop"]
            /\ partner' = [partner EXCEPT ![w] = NoName]
       ELSE /\ pc' = [pc EXCEPT ![w] = "msg_pop"]
            /\ UNCHANGED partner
  /\ pointed_back' = [pointed_back EXCEPT ![w] = FALSE]
  /\ UNCHANGED <<clients, pairs, open, username, eof, sock, target, target_sock,
                 old_partner, nlines>>
  /\ Send(w, IF clients[partner[w]] # NoSock
               THEN <<Line(clients[partner[w]], "chat", username[w])>>
               ELSE <<>>)

\* with clients_lock: pairs.pop(username, None); "Partner disconnected".
MsgPop(w) ==
  /\ input' = NoInput
  /\ pc[w] = "msg_pop"
  /\ pairs' = [pairs EXCEPT ![username[w]] = NoName]
  /\ pc' = [pc EXCEPT ![w] = "loop"]
  /\ partner' = [partner EXCEPT ![w] = NoName]
  /\ UNCHANGED <<clients, open, username, eof, sock, target, target_sock,
                 old_partner, pointed_back, nlines>>
  /\ Send(w, <<Line(w, "partnergone", NoName)>>)

----------------------------------------------------------------------------
(* The finally block of handle_client and cleanup_user.                    *)

\* A variant of CleanupPairs that pops the own entry only.
CleanupPairsOwnOnly(ps, u) == [ps EXCEPT ![u] = NoName]

\* pairs after the guarded section of cleanup_user(u).
CleanupPairs(ps, u) ==
  LET p == ps[u]
      q == [ps EXCEPT ![u] = NoName]
  IN  IF p # NoName /\ q[p] = u THEN [q EXCEPT ![p] = NoName] ELSE q

\* A variant of CleanupPartnerSock that takes the socket of any registered
\* identity whose entry names u, whether or not u's own entry names it.
CleanupPartnerSockAnyPointer(cl, ps, u) ==
  LET back == {y \in Names : y # u /\ ps[y] = u /\ cl[y] # NoSock}
  IN  IF back # {} THEN cl[CHOOSE y \in back : TRUE] ELSE NoSock

\* partner_sock at the end of the guarded section of cleanup_user(u).
CleanupPartnerSock(cl, ps, u) ==
  LET p == ps[u]
      c == [cl EXCEPT ![u] = NoSock]
      q == [ps EXCEPT ![u] = NoName]
  IN  IF p # NoName /\ q[p] = u THEN c[p] ELSE NoSock

\* handle_client of connection w returns and its references to the socket
\* are gone.  A socket that nothing has closed (that of a worker rejected
\* with "Username already taken", or of a worker whose Registry entry
\* another worker's cleanup_user popped) is finalised, which closes it, as
\* soon as nothing refers to it: now, unless main's local `conn` still does
\* (w is the connection accepted last; then at the next accept) or the
\* `sock` of another worker's cleanup_user does (then that worker closes
\* it, line 46).
Returned(w, op) ==
  IF (\E v \in Conns : v > w /\ pc[v] # "idle") /\ ~Held(w)
    THEN [op EXCEPT ![w] = FALSE]
    ELSE op

\* cleanup_user(username[w]) as worker w runs it from the finally block,
\* up to the notice: the guarded section (lines 32-41) and
\* send_line(partner_sock, ...) (line 44).  The socket popped is still to
\* be closed.
cleanup_user(w) ==
  LET u  == username[w]
      ps == CleanupPartnerSock(clients, pairs, u)
  IN  /\ clients' = [clients EXCEPT ![u] = NoSock]
      /\ pairs' = CleanupPairs(pairs, u)
      /\ sock' = [sock EXCEPT ![w] = clients[u]]
      /\ pc' = [pc EXCEPT ![w] = "cleanup_close"]
      /\ UNCHANGED open
      /\ Send(w, IF ps # NoSock THEN <<Line(ps, "disconnected", u)>> ELSE <<>>)

\* readline raises on what arrives (bytes that are not UTF-8, a reset):
\* except, pass; then the finally block, cleanup_user(username).
ReadError(w) ==
  /\ input' = In(w, "error", NoName)
  /\ CanRead(w)
  /\ nlines' = nlines + 1
  /\ UNCHANGED <<username, locals, eof>>
  /\ cleanup_user(w)

\* readline returns "" (end of stream): break; then the finally block:
\* username is set, cleanup_user(username).
ReadEOF(w) ==
  /\ input' = In(w, "eof", NoName)
  /\ pc[w] = "loop"
  /\ UNCHANGED <<username, locals, eof, nlines>>
  /\ cleanup_user(w)

\* /quit: "Bye", break.
CmdQuit(w) ==
  /\ input' = In(w, "quit", NoName)
  /\ CanRead(w)
  /\ nlines' = nlines + 1
  /\ pc' = [pc EXCEPT ![w] = "quit"]
  /\ UNCHANGED <<clients, pairs, open, username, locals, eof, sock>>
  /\ Send(w, <<Line(w, "bye", NoName)>>)

\* The finally block after the break of line 174: cleanup_user(username).
QuitFinally(w) ==
  /\ input' = NoInput
  /\ pc[w] = "quit"
  /\ UNCHANGED <<username, locals, eof, nlines>>
  /\ cleanup_user(w)

\* The finally block after the return of line 85: username is set, so
\* cleanup_user(username) runs.
TakenFinally(w) ==
  /\ input' = NoInput
  /\ pc[w] = "ret_taken"
  /\ UNCHANGED <<username, locals, eof, nlines>>
  /\ cleanup_user(w)

\* The end of cleanup_user, once the notice is written: if sock:
\* safe_close(sock) (line 46); then f.close() and handle_client returns.
CleanupClose(w) ==
  /\ input' = NoInput
  /\ pc[w] = "cleanup_close"
  /\ open' = Returned(w, IF sock[w] # NoSock
                            THEN [open EXCEPT ![sock[w]] = FALSE]
                            ELSE open)
  /\ sock' = [sock EXCEPT ![w] = NoSock]
  /\ username' = [username EXCEPT ![w] = NoName]
  /\ pc' = [pc EXCEPT ![w] = "done"]
  /\ UNCHANGED <<clients, pairs, locals, eof, nlines>>
  /\ Send(w, <<>>)

----------------------------------------------------------------------------
Next ==
  \E w \in Conns :
    \/ Accept(w)
    \/ \E raised \in BOOLEAN : RegisterEmpty(w, raised)
    \/ \E name \in Names : RegisterOk(w, name)
    \/ \E name \in Names : RegisterTaken(w, name)
    \/ ReadBlank(w)
    \/ CmdUsers(w)
    \/ CmdChatUsage(w)
    \/ CmdChatSelf(w)
    \/ \E t \in Names : CmdChatNotFound(w, t)
    \/ \E t \in Names : CmdChatFound(w, t)
    \/ ChatGetOld(w)
    \/ ChatUnpair(w)
    \/ ChatOldSock(w)
    \/ ChatTargetPartner(w)
    \/ ChatSetPair(w)
    \/ CmdLeaveNoChat(w)
    \/ CmdLeave(w)
    \/ LeaveUnpair(w)
    \/ LeaveNotify(w)
    \/ CmdUnknown(w)
    \/ MsgNoChat(w)
    \/ MsgGetPartner(w)
    \/ MsgGetSocket(w)
    \/ MsgPop(w)
    \/ ReadError(w)
    \/ ReadEOF(w)
    \/ CmdQuit(w)
    \/ QuitFinally(w)
    \/ TakenFinally(w)
    \/ CleanupClose(w)
    \/ SendReturns(w)

Spec == Init /\ [][Next]_vars

----------------------------------------------------------------------------
(* The same workers with the end of a connection's input as an event of    *)
(* its own: the peer closes its sending end (PeerClose), or another        *)
(* worker's cleanup_user shuts the socket down, and the worker reads the   *)
(* end of the stream when it next gets to readline.  A worker's steps that *)
(* wait for no input and for no peer (its guarded sections, the readline   *)
(* that finds the stream ended, the return of a sendall on a socket that   *)
(* was shut down) are taken under weak fairness: the worker is a thread of *)
(* its own, and a guarded section holds the lock for a few dictionary      *)
(* operations only.  The return of a sendall that waits for the peer to    *)
(* read is the peer's doing, and nothing makes a peer read.                *)

LiveNumConns == 2   \* connections accepted by main() in LiveSpec
LiveMaxLines == 4   \* lines read by all workers together in LiveSpec

\* The peer of a registered connection w closes its sending end.
PeerClose(w) ==
  /\ pc[w] \in InLoop
  /\ ~eof[w]
  /\ eof' = [eof EXCEPT ![w] = TRUE]
  /\ input' = NoInput
  /\ sent' = <<>>
  /\ UNCHANGED <<clients, pairs, open, pc, username, locals, sock, nlines,
                 waiting, pending>>

\* A line arrives on a connection whose stream has not ended.
LineStep(w) ==
  /\ ~eof[w]
  /\ nlines < LiveMaxLines
  /\ \/ \E raised \in BOOLEAN : RegisterEmpty(w, raised)
     \/ \E name \in Names : RegisterOk(w, name)
     \/ \E name \in Names : RegisterTaken(w, name)
     \/ ReadBlank(w)
     \/ CmdUsers(w)
     \/ CmdChatUsage(w)
     \/ CmdChatSelf(w)
     \/ \E t \in Names : CmdChatNotFound(w, t)
     \/ \E t \in Names : CmdChatFound(w, t)
     \/ CmdLeaveNoChat(w)
     \/ CmdLeave(w)
     \/ CmdUnknown(w)
     \/ MsgNoChat(w)
     \/ MsgGetPartner(w)
     \/ CmdQuit(w)
     \/ ReadError(w)

\* A step worker w takes without waiting for input or for a peer.
WorkerStep(w) ==
  \/ ChatGetOld(w)
  \/ ChatUnpair(w)
  \/ ChatOldSock(w)
  \/ ChatTargetPartner(w)
  \/ ChatSetPair(w)
  \/ LeaveUnpair(w)
  \/ LeaveNotify(w)
  \/ MsgGetSocket(w)
  \/ MsgPop(w)
  \/ QuitFinally(w)
  \/ TakenFinally(w)
  \/ CleanupClose(w)
  \/ (eof[w] \/ ~open[w]) /\ ReadEOF(w)
  \/ (waiting[w] # NoSock /\ ~open[waiting[w]]) /\ SendReturns(w)

LiveNext ==
  \E w \in Conns :
    \/ w <= LiveNumConns /\ Accept(w)
    \/ PeerClose(w)
    \/ SendReturns(w)
    \/ LineStep(w)
    \/ WorkerStep(w)

LiveSpec ==
  Init /\ [][LiveNext]_vars /\ \A w \in Conns : WF_vars(WorkerStep(w))

----------------------------------------------------------------------------
(* Properties.                                                            *)

\* Worker w is in the dispatcher state Registered: in the loop, or out of
\* it by /quit and yet to start its teardown.
Registered(w) == pc[w] \in InLoop \cup {"quit"}

\* No running worker has the username X and X is not in the Registry: every
\* session X has completed its teardown and nobody has taken the name since.
TornDown(X) ==
  /\ clients[X] = NoSock
  /\ \A w \in Conns : username[w] # X

\* The positions in sequence q of the "disconnected" notices.
DisconnectedNotices(q) == {i \in DOMAIN q : q[i].kind = "disconnected"}

\* C1: a registration attempt with a name that is already registered has no
\* side effects: the finally block of the rejected worker changes neither
\* the Registry nor the Pairing Table, notifies nobody and has no socket of
\* another connection to close.
C1_RejectedNoSideEffects ==
  [][\A w \in Conns :
       (pc[w] = "ret_taken" /\ pc'[w] # pc[w])
         => /\ clients' = clients
            /\ pairs' = pairs
            /\ sock'[w] = NoSock
            /\ sent' = <<>>]_vars

\* C2: at most one worker is Registered with any identity, and the Registry
\* holds exactly the identities of the Registered workers, each mapped to
\* that worker's own connection.
C2_RegistryIsRegisteredWorkers ==
  \A X \in Names :
    /\ Cardinality({w \in Conns : Registered(w) /\ username[w] = X}) <= 1
    /\ \A w \in Conns : (Registered(w) /\ username[w] = X) <=> clients[X] = w

\* C3: pairing symmetry: if pairs[A] = B then pairs[B] = A or B is not in
\* the Registry.
C3_PairingSymmetry ==
  \A A \in Names :
    pairs[A] # NoName => (pairs[pairs[A]] = A \/ clients[pairs[A]] = NoSock)

\* C4: a /chat T by sender S never overwrites or removes the pairing of a
\* target T that is paired with a third identity P when S's check or
\* S's install runs: S is refused with the "already chatting" notice and
\* pairs[T], pairs[P] stay as they are.
C4_TargetPairKept ==
  [][\A w \in Conns :
       (pc[w] \in {"chat_tp", "chat_set"} /\ pc'[w] # pc[w])
         => LET S == username[w]
                T == target[w]
                P == pairs[T]
            IN  (P # NoName /\ P # S)
                  => /\ pairs'[T] = P
                     /\ pairs'[P] = pairs[P]
                     /\ sent' = <<Line(w, "busy", P)>>]_vars

\* C5: when a session X that is mutually paired with a registered partner P
\* disconnects, its teardown removes pairs[P] and sends exactly one
\* "X disconnected" notice, to P's connection.
C5_TeardownCleanup ==
  [][\A w \in Conns :
       (pc[w] \in {"loop", "quit"} /\ pc'[w] = "cleanup_close")
         => LET X == username[w]
                P == pairs[X]
            IN  (P # NoName /\ pairs[P] = X /\ clients[P] # NoSock)
                  => /\ pairs'[P] = NoName
                     /\ pairs'[X] = NoName
                     /\ Cardinality(DisconnectedNotices(sent')) = 1
                     /\ \A i \in DisconnectedNotices(sent') :
                          sent'[i] = Line(clients[P], "disconnected", X)]_vars

\* C5 witness: a session has just disconnected and its partner's connection
\* was sent the notice.
C5_Witness ==
  \E w \in Conns :
    /\ pc[w] = "cleanup_close"
    /\ input = In(w, "eof", NoName)
    /\ \E c \in Conns \ {w}, X \in Names : sent = <<Line(c, "disconnected", X)>>
    /\ \A u \in Names : pairs[u] = NoName

\* C6: whenever a /chat installs the pair S<->T, both names are in the
\* Registry at the moment of the install.
C6_InstallOnlyRegistered ==
  [][\A w \in Conns :
       (pc[w] = "chat_set" /\ pc'[w] = "loop")
         => /\ clients[target[w]] # NoSock
            /\ clients[username[w]] # NoSock]_vars

\* C7: a worker that has terminated has closed its own connection, and the
\* identity it registered is no longer mapped to its connection.
C7_TerminatedIsClosed ==
  \A w \in Conns :
    pc[w] = "done"
      => /\ ~open[w]
         /\ \A X \in Names : clients[X] # w

\* C8: once the teardown of session X has completed and nobody has taken
\* the name X again, the Pairing Table has no entry that references X.
C8_NoEntryAfterTeardown ==
  \A X \in Names :
    TornDown(X) => /\ pairs[X] = NoName
                   /\ \A Y \in Names : pairs[Y] # X

\* The notice a protocol usage error of worker w is answered with, given the
\* line read (NoName for a line that is not a usage error in this state).
UsageNotice(w, in) ==
  IF in.line = "chat" /\ in.arg = NoName THEN "usage"
  ELSE IF in.line = "chat" /\ in.arg = username[w] THEN "self"
  ELSE IF in.line = "chat" /\ clients[in.arg] = NoSock THEN "notfound"
  ELSE IF in.line = "leave" /\ pairs[username[w]] = NoName THEN "leave_nochat"
  ELSE IF in.line = "unknown" THEN "unknown"
  ELSE ""

\* C9: a protocol usage error (a /chat without argument, on the own name or
\* on a name that is not registered, a /leave while unpaired, an unknown
\* command) sends exactly one line, to the sender, changes neither the
\* Registry nor the Pairing Table and leaves the worker Registered.
C9_UsageErrorsNoEffect ==
  [][\A w \in Conns :
       (pc[w] = "loop" /\ input'.conn = w /\ UsageNotice(w, input') # "")
         => /\ Len(sent') = 1
            /\ sent'[1].to = w
            /\ sent'[1].kind = UsageNotice(w, input')
            /\ clients' = clients
            /\ pairs' = pairs
            /\ open' = open
            /\ pc'[w] = "loop"]_vars

\* C9 witness: a sender that is in a chat has just been told that the
\* target of its /chat was not found, and is still in its chat.
C9_Witness ==
  \E w \in Conns, t \in Names :
    /\ input = In(w, "chat", t)
    /\ sent = <<Line(w, "notfound", t)>>
    /\ pc[w] = "loop"
    /\ pairs[username[w]] # NoName
    /\ pairs[pairs[username[w]]] = username[w]

\* C10: the guarded section of a /leave by B, mutually paired with A,
\* removes pairs[B] and pairs[A]; the /leave then writes the "B left the
\* chat" notice to the connection of A, if A still has one in the
\* Registry, and B is eventually sent the confirmation; a plain line of a
\* worker without a Pairing Table entry is forwarded to nobody and answered
\* with the "not in a chat" notice; an absent entry becomes present only by
\* the set_pair of a /chat.
C10_LeaveEndsChat ==
  /\ [][/\ \A w \in Conns :
             (pc[w] = "leave_unpair" /\ pc'[w] = "leave_notify")
               => LET B == username[w]
                      A == partner[w]
                  IN  (pairs[B] = A /\ pairs[A] = B)
                        => pairs'[B] = NoName /\ pairs'[A] = NoName
        /\ \A w \in Conns :
             (pc[w] = "leave_notify" /\ pc'[w] = "loop"
                /\ clients[partner[w]] # NoSock)
               => \E i \in DOMAIN sent' :
                    sent'[i] = Line(clients[partner[w]], "left", username[w])
        /\ \A w \in Conns :
             (pc[w] = "loop" /\ input' = In(w, "msg", NoName)
                /\ pairs[username[w]] = NoName)
               => /\ sent' = <<Line(w, "notinchat", NoName)>>
                  /\ pc'[w] = "loop"
        /\ \A X \in Names :
             (pairs[X] = NoName /\ pairs'[X] # NoName)
               => \E w \in Conns :
                    /\ pc[w] = "chat_set" /\ pc'[w] = "loop"
                    /\ X \in {username[w], target[w]}]_vars
  /\ \A w \in Conns :
       (pc[w] = "leave_notify")
         ~> (\E i \in DOMAIN sent : sent[i].to = w /\ sent[i].kind = "youleft")

\* C11: cleanup_user is idempotent: for every identity X, running the
\* guarded section of cleanup_user(X) on the state a first cleanup_user(X)
\* leaves gives the same Registry and the same Pairing Table again, pops no
\* socket (nothing to close) and finds no partner socket (no notice).
C11_TeardownIdempotent ==
  \A X \in Names :
    LET c1 == [clients EXCEPT ![X] = NoSock]
        p1 == CleanupPairs(pairs, X)
    IN  /\ [c1 EXCEPT ![X] = NoSock] = c1
        /\ CleanupPairs(p1, X) = p1
        /\ c1[X] = NoSock
        /\ CleanupPartnerSock(c1, p1, X) = NoSock

\* C11 witness: identity X is registered and mutually paired with a
\* registered partner, and a third identity's entry names X as well: the
\* first cleanup_user(X) pops a socket, removes two entries and sends a
\* notice, and leaves an entry that names X behind for the second.
C11_Witness ==
  \E X \in Names, Y \in Names :
    /\ clients[X] # NoSock
    /\ pairs[X] # NoName
    /\ pairs[pairs[X]] = X
    /\ clients[pairs[X]] # NoSock
    /\ Y # pairs[X]
    /\ pairs[Y] = X
    /\ clients[Y] # NoSock

\* C12: /users by X sends X one line that lists exactly the identities in
\* the Registry other than X, in increasing order ("no other users" when
\* there is none), and changes no state; an identity whose teardown has
\* completed is not in the answer.
C12_UsersAnswer ==
  [][\A w \in Conns :
       (pc[w] = "loop" /\ input' = In(w, "users", NoName))
         => LET others == {u \in Names : clients[u] # NoSock /\ u # username[w]}
                answer == sent'[1]
            IN  /\ Len(sent') = 1
                /\ answer.to = w
                /\ answer.kind = IF others = {} THEN "noothers" ELSE "online"
                /\ {answer.users[i] : i \in DOMAIN answer.users} = others
                /\ \A i \in DOMAIN answer.users, j \in DOMAIN answer.users :
                     i < j => answer.users[i] < answer.users[j]
                /\ \A X \in Names :
                     TornDown(X) => \A i \in DOMAIN answer.users : answer.users[i] # X
                /\ clients' = clients
                /\ pairs' = pairs
                /\ open' = open
                /\ pc' = pc]_vars

\* C12 witness: a /users has just been answered with a list of two names.
C12_Witness ==
  \E w \in Conns :
    /\ input = In(w, "users", NoName)
    /\ Len(sent) = 1
    /\ sent[1].kind = "online"
    /\ Len(sent[1].users) = 2

\* C13: switching chats: when sender S, whose entry names P, completes a
\* /chat T with a target T other than P, P's entry does not point at S and
\* S's entry is T or absent.
C13_SwitchLeavesOldChat ==
  [][\A w \in Conns :
       (pc[w] \in {"chat_tp", "chat_set"} /\ pc'[w] = "loop"
          /\ old_partner[w] # NoName /\ target[w] # old_partner[w])
         => /\ pairs'[old_partner[w]] # username[w]
            /\ pairs'[username[w]] \in {target[w], NoName}]_vars

\* Worker w takes a step of its handling of a plain line: the read with
\* get_partner, get_socket with the forward, or the removal of the entry.
MsgStep(w) ==
  \/ pc[w] = "loop" /\ input' = In(w, "msg", NoName)
  \/ pc[w] \in {"msg_sock", "msg_pop"} /\ pc'[w] # pc[w]

\* C14: the handling of a plain line from S never changes the Registry; it
\* changes the Pairing Table only by removing S's own entry, and only when
\* the partner that entry names is not in the Registry; a line it forwards
\* goes to the connection of S's partner only, as "S: message"; when S has
\* no partner nothing is forwarded and S gets the "not in a chat" notice.
C14_PlainLineRouting ==
  [][\A w \in Conns :
       MsgStep(w)
         => LET S == username[w] IN
            /\ clients' = clients
            /\ \/ pairs' = pairs
               \/ /\ pairs' = [pairs EXCEPT ![S] = NoName]
                  /\ clients[pairs[S]] = NoSock
            /\ \A i \in DOMAIN sent' :
                 \/ sent'[i].to = w /\ sent'[i].kind \in {"notinchat", "partnergone"}
                 \/ /\ sent' = <<Line(clients[partner[w]], "chat", S)>>
                    /\ partner[w] # NoName
            /\ (pc[w] = "loop" /\ pairs[S] = NoName)
                 => sent' = <<Line(w, "notinchat", NoName)>>]_vars

\* C15: a "S left the chat" notice (of /leave or of a /chat that closes the
\* previous chat) is sent only if the partner's entry pointed back at S
\* when the guarded section before it removed S's entry.
C15_LeftNoticeOnlyIfPointedBack ==
  [][\A w \in Conns :
       (pc[w] \in {"leave_notify", "chat_oldsock"} /\ pc'[w] # pc[w])
         => ((\E i \in DOMAIN sent' : sent'[i].kind = "left")
               => pointed_back[w])]_vars

\* C17: immediately after a connection registers identity X the Pairing
\* Table has no entry for X and no entry whose value is X.
C17_FreshSessionUnpaired ==
  [][\A w \in Conns :
       (pc[w] = "prompt" /\ pc'[w] = "loop")
         => LET X == username'[w]
            IN  /\ pairs'[X] = NoName
                /\ \A Y \in Names : pairs'[Y] # X]_vars

\* C18: a chat line "S: message" is written to a connection only if the
\* identity S's entry named was mutually paired with S when S's worker
\* read its partner.
C18_ChatLinesStayInPair ==
  [][\A w \in Conns :
       (pc[w] = "msg_sock" /\ pc'[w] # pc[w])
         => ((\E i \in DOMAIN sent' : sent'[i].kind = "chat")
               => pointed_back[w])]_vars

\* C19: a /chat T by S that is mutually paired with T runs, with no other
\* worker in between, the guarded section that removes both entries, is
\* not refused, and installs the pair again: the Pairing Table it ends
\* with is the one it started from, and the Registry is never touched.
C19_RechatIdempotent ==
  [][\A w \in Conns :
       LET S == username[w]
           T == target[w]
       IN  /\ (pc[w] = "chat_old" /\ pc'[w] # pc[w]
                  /\ pairs[S] = T /\ pairs[T] = S)
                => /\ pc'[w] = "chat_unpair"
                   /\ old_partner'[w] = T
                   /\ Unpair(pairs, S, T)[T] = NoName
                   /\ set_pair(Unpair(pairs, S, T), S, T) = pairs
           /\ (pc[w] \in {"chat_unpair", "chat_oldsock", "chat_tp", "chat_set"}
                  /\ pc'[w] # pc[w] /\ old_partner[w] = T)
                => /\ clients' = clients
                   /\ pairs' = IF pc[w] = "chat_unpair" THEN Unpair(pairs, S, T)
                               ELSE IF pc[w] = "chat_set" THEN set_pair(pairs, S, T)
                               ELSE pairs
                   /\ (pc[w] = "chat_tp" /\ pairs[T] \in {NoName, S})
                        => pc'[w] = "chat_set"]_vars

\* C19 witness: S has issued /chat T while paired with T, both entries of
\* the pair have been removed and S is about to install the pair again.
C19_Witness ==
  \E w \in Conns :
    /\ pc[w] = "chat_set"
    /\ old_partner[w] = target[w]
    /\ clients[target[w]] # NoSock
    /\ pairs[username[w]] = NoName
    /\ pairs[target[w]] = NoName

\* C20: no identity is paired with itself.
C20_NoSelfPairing ==
  \A X \in Names : pairs[X] # X

\* C20 witness: a sender that is in a chat has just been refused a /chat
\* with its own name.
C20_Witness ==
  \E w \in Conns :
    /\ input = In(w, "chat", username[w])
    /\ sent = <<Line(w, "self", NoName)>>
    /\ pc[w] = "loop"
    /\ pairs[username[w]] # NoName

\* Worker w has something to do that waits for no input and is not inside
\* a sendall: it is inside a command, between a return or break and the
\* finally block, before the close of cleanup_user, or in a readline on a
\* stream that has ended or on a socket that was shut down.
Runnable(w) ==
  /\ waiting[w] = NoSock
  /\ \/ pc[w] \in (InLoop \ {"loop"}) \cup {"ret_taken", "quit", "cleanup_close"}
     \/ pc[w] = "loop" /\ (eof[w] \/ ~open[w])

\* C16: no worker waits for the lock for ever: a runnable worker can always
\* take its next step, whatever the positions of the others; the teardown
\* of a registered worker leaves its identity out of the Registry and
\* without a Pairing Table entry; and under weak fairness of each worker's
\* own steps a registered worker whose input has ended (its peer closed its
\* end, or another worker's cleanup_user shut its socket down) or that has
\* read /quit eventually terminates, whatever the others do.
C16_EofOrQuitTerminates ==
  /\ [](\A w \in Conns : Runnable(w) => ENABLED <<WorkerStep(w)>>_vars)
  /\ [][\A w \in Conns :
         (Registered(w) /\ pc'[w] = "cleanup_close")
           => /\ clients'[username[w]] = NoSock
              /\ pairs'[username[w]] = NoName]_vars
  /\ \A w \in Conns :
       (pc[w] \in InLoop /\ (eof[w] \/ ~open[w])) ~> (pc[w] = "done")
  /\ \A w \in Conns : (pc[w] = "quit") ~> (pc[w] = "done")

====
